---- MODULE Spec2Model ----
(***************************************************************************)
(* Model of the Gemini API key manager (apiKeysManager.js) and of the      *)
(* part of the POST /generate-quiz handler (index.js) that uses it.        *)
(*                                                                         *)
(* Node runs each synchronous stretch of code to completion, so each of    *)
(* getAvailableApiKey and updateApiKeyStatus is one atomic step; handlers  *)
(* interleave only at the awaits between them.  The clock (Date.now())     *)
(* does not advance inside a step.  Indices are 0-based as in the source;  *)
(* sequences are 1-based, hence the "+ 1" at each subscript.               *)
(***************************************************************************)
EXTENDS Integers, Sequences, FiniteSets, TLC

\* ------------------------------------------------------------------ bounds
MaxKeys == 2
NumHandlers == 2
MaxTicks == 1
TicksPerCooldown == 1

\* --------------------------------------------------------------- constants
RETRY_DELAY_MS == 5 * 60 * 1000

TickMs == RETRY_DELAY_MS \div TicksPerCooldown
MaxNow == TickMs * (MaxTicks + 1)

NULL == "null"
KeyNames == <<"A", "B", "C", "D", "E", "F">>
Handlers == 1..NumHandlers

\* The substrings updateApiKeyStatus looks for, as sequences of characters.
RateLimitText == <<"r", "a", "t", "e", " ", "l", "i", "m", "i", "t">>
QuotaText == <<"q", "u", "o", "t", "a", " ", "e", "x", "c", "e", "e", "d", "e", "d">>
Code429Text == <<"4", "2", "9">>

\* Error texts a failed provider call can carry: "[429]", "rate limit",
\* "quota exceeded", "Rate Limit", "500".
MsgEmpty == << >>
Msg429 == <<"[", "4", "2", "9", "]">>
MsgRateLimit == <<"r", "a", "t", "e", " ", "l", "i", "m", "i", "t">>
MsgQuota == <<"q", "u", "o", "t", "a", " ", "e", "x", "c", "e", "e", "d", "e", "d">>
MsgUpperCase == <<"R", "a", "t", "e", " ", "L", "i", "m", "i", "t">>
Msg500 == <<"5", "0", "0">>
ErrorMessages == {Msg429, MsgRateLimit, MsgQuota, MsgUpperCase, Msg500}

\* The message of the Error getAvailableApiKey throws: "No Gemini API key is
\* currently available. All keys are either rate-limited or marked as
\* temporarily unavailable. Please try again later."
NoKeyMessage ==
    <<"N", "o", " ", "G", "e", "m", "i", "n", "i", " ", "A", "P", "I",
      " ", "k", "e", "y", " ", "i", "s", " ", "c", "u", "r", "r", "e",
      "n", "t", "l", "y", " ", "a", "v", "a", "i", "l", "a", "b", "l",
      "e", ".", " ", "A", "l", "l", " ", "k", "e", "y", "s", " ", "a",
      "r", "e", " ", "e", "i", "t", "h", "e", "r", " ", "r", "a", "t",
      "e", "-", "l", "i", "m", "i", "t", "e", "d", " ", "o", "r", " ",
      "m", "a", "r", "k", "e", "d", " ", "a", "s", " ", "t", "e", "m",
      "p", "o", "r", "a", "r", "i", "l", "y", " ", "u", "n", "a", "v",
      "a", "i", "l", "a", "b", "l", "e", ".", " ", "P", "l", "e", "a",
      "s", "e", " ", "t", "r", "y", " ", "a", "g", "a", "i", "n", " ",
      "l", "a", "t", "e", "r", ".">>

\* The substrings the handler's catch block looks for.
ApiKeyText ==
    <<"A", "P", "I", " ", "k", "e", "y">>
Code403Text ==
    <<"4", "0", "3">>
Code400Text ==
    <<"4", "0", "0">>
ResponseSchemaText ==
    <<"r", "e", "s", "p", "o", "n", "s", "e", "S", "c", "h", "e", "m",
      "a">>
Code503Text ==
    <<"5", "0", "3">>
TemporarilyUnavailableText ==
    <<"t", "e", "m", "p", "o", "r", "a", "r", "i", "l", "y", " ", "u",
      "n", "a", "v", "a", "i", "l", "a", "b", "l", "e">>
NoGeminiApiKeyText ==
    <<"N", "o", " ", "G", "e", "m", "i", "n", "i", " ", "A", "P", "I",
      " ", "k", "e", "y">>

\* The cooldown the specification states, in milliseconds.
FiveMinutes == 5 * 60 * 1000

\* The messages of ErrorMessages that carry a rate-limit marker.
RateLimitMessages == {Msg429, MsgRateLimit, MsgQuota}

VARIABLES ALL_API_KEYS, keyStatus, currentKeyIndex, now, pc, usedKey,
          lastOp, reportedSince, rlReportedAt, firstAcquires,
          acquireLog, acquireRun, rlSeq, scenario

vars == <<ALL_API_KEYS, keyStatus, currentKeyIndex, now, pc, usedKey,
          lastOp, reportedSince, rlReportedAt, firstAcquires,
          acquireLog, acquireRun, rlSeq, scenario>>

\* What the model records about past calls, beyond the latest one.
hist == <<reportedSince, rlReportedAt, firstAcquires,
          acquireLog, acquireRun, rlSeq, scenario>>

\* The part of it that only the later specifications maintain.
laterHist == <<acquireLog, acquireRun, rlSeq, scenario>>

\* The part of it that only the earlier specifications maintain.
earlierHist == <<reportedSince, rlReportedAt, firstAcquires>>

\* ------------------------------------------------------------ key manager

\* String.prototype.includes: needle occurs as a contiguous run of haystack.
Includes(haystack, needle) ==
    \E i \in 1..(Len(haystack) - Len(needle) + 1) :
        SubSeq(haystack, i, i + Len(needle) - 1) = needle

\* keyStatus = ALL_API_KEYS.map(key => ({key, available: true, retryAfter: 0}))
InitialKeyStatus(keys) ==
    [i \in 1..Len(keys) |-> [key |-> keys[i], available |-> TRUE, retryAfter |-> 0]]

\* Variants of IsSelectable: the deadline compared with < , and with >=.
IsSelectableStrict(status, t) ==
    status.available \/ status.retryAfter < t

IsSelectableFlipped(status, t) ==
    status.available \/ status.retryAfter >= t

\* Variant of IsSelectable: the deadline never looked at.
IsSelectableAvailableOnly(status, t) ==
    status.available

\* status.available || status.retryAfter <= now
IsSelectable(status, t) ==
    status.available \/ status.retryAfter <= t

\* Variant of MarkSelected: the deadline left in place.
MarkSelectedKeepDeadline(status) ==
    [status EXCEPT !.available = TRUE]

\* status.available = true; status.retryAfter = 0;
MarkSelected(status) ==
    [status EXCEPT !.available = TRUE, !.retryAfter = 0]

\* currentKeyIndex = (currentKeyIndex + 1) % keyStatus.length, inside the loop
SkipIndex(idx, n) ==
    (idx + 1) % n

\* Variants of AdvanceIndex: the advance left out, and the wrap left out.
AdvanceIndexStay(idx, n) ==
    idx % n

AdvanceIndexNoWrap(idx, n) ==
    idx + 1

\* Variant of AdvanceIndex: two places forward.
AdvanceIndexByTwo(idx, n) ==
    (idx + 2) % n

\* currentKeyIndex = (currentKeyIndex + 1) % keyStatus.length, after the loop
AdvanceIndex(idx, n) ==
    (idx + 1) % n

\* Variant of ScanLoop: two revolutions allowed, and no stop on coming back
\* to the starting index.
RECURSIVE ScanLoopTwoRounds(_, _, _, _, _)
ScanLoopTwoRounds(ks, idx, startIndex, attempts, t) ==
    IF attempts < 2 * Len(ks)
    THEN LET status == ks[idx + 1] IN
         IF IsSelectable(status, t)
         THEN [keyStatus |-> [ks EXCEPT ![idx + 1] = MarkSelected(status)],
               currentKeyIndex |-> idx,
               foundKey |-> status.key,
               attempts |-> attempts]
         ELSE ScanLoopTwoRounds(ks, SkipIndex(idx, Len(ks)), startIndex,
                                attempts + 1, t)
    ELSE [keyStatus |-> ks, currentKeyIndex |-> idx,
          foundKey |-> NULL, attempts |-> attempts]

\* The while loop of getAvailableApiKey, one iteration per unfolding.
RECURSIVE ScanLoop(_, _, _, _, _)
ScanLoop(ks, idx, startIndex, attempts, t) ==
    IF attempts < Len(ks)
    THEN LET status == ks[idx + 1] IN
         IF IsSelectable(status, t)
         THEN [keyStatus |-> [ks EXCEPT ![idx + 1] = MarkSelected(status)],
               currentKeyIndex |-> idx,
               foundKey |-> status.key,
               attempts |-> attempts]
         ELSE LET nxt == SkipIndex(idx, Len(ks)) IN
              IF nxt = startIndex
              THEN [keyStatus |-> ks, currentKeyIndex |-> nxt,
                    foundKey |-> NULL, attempts |-> attempts + 1]
              ELSE ScanLoop(ks, nxt, startIndex, attempts + 1, t)
    ELSE [keyStatus |-> ks, currentKeyIndex |-> idx,
          foundKey |-> NULL, attempts |-> attempts]

\* Variant of getAvailableApiKey: the cursor advanced before the test for
\* a found key, so on the throwing path too.
getAvailableApiKeyAdvanceFirst(ks, cki, t) ==
    LET r == ScanLoop(ks, cki, cki, 0, t) IN
    IF r.foundKey = NULL
    THEN [threw |-> TRUE, foundKey |-> NULL, keyStatus |-> r.keyStatus,
          currentKeyIndex |-> AdvanceIndex(r.currentKeyIndex, Len(ks)),
          attempts |-> r.attempts]
    ELSE [threw |-> FALSE, foundKey |-> r.foundKey, keyStatus |-> r.keyStatus,
          currentKeyIndex |-> AdvanceIndex(r.currentKeyIndex, Len(ks)),
          attempts |-> r.attempts]

\* getAvailableApiKey(): threw = TRUE models the thrown Error.
getAvailableApiKey(ks, cki, t) ==
    LET r == ScanLoop(ks, cki, cki, 0, t) IN
    IF r.foundKey = NULL
    THEN [threw |-> TRUE, foundKey |-> NULL, keyStatus |-> r.keyStatus,
          currentKeyIndex |-> r.currentKeyIndex, attempts |-> r.attempts]
    ELSE [threw |-> FALSE, foundKey |-> r.foundKey, keyStatus |-> r.keyStatus,
          currentKeyIndex |-> AdvanceIndex(r.currentKeyIndex, Len(ks)),
          attempts |-> r.attempts]

\* Variants of IsRateLimitError: the '429' test left out, and an empty marker.
IsRateLimitErrorNo429(errorMessage) ==
    \/ Includes(errorMessage, RateLimitText)
    \/ Includes(errorMessage, QuotaText)

IsRateLimitErrorEmptyMarker(errorMessage) ==
    \/ Includes(errorMessage, RateLimitText)
    \/ Includes(errorMessage, QuotaText)
    \/ Includes(errorMessage, << >>)

\* Variant of IsRateLimitError: the 'quota exceeded' test left out.
IsRateLimitErrorNoQuota(errorMessage) ==
    \/ Includes(errorMessage, RateLimitText)
    \/ Includes(errorMessage, Code429Text)

\* errorMessage.includes('rate limit') || ...('quota exceeded') || ...('429')
IsRateLimitError(errorMessage) ==
    \/ Includes(errorMessage, RateLimitText)
    \/ Includes(errorMessage, QuotaText)
    \/ Includes(errorMessage, Code429Text)

\* Variant of MarkSuccess: the deadline left in place.
MarkSuccessKeepDeadline(entry) ==
    [entry EXCEPT !.available = TRUE]

\* success branch of updateApiKeyStatus
MarkSuccess(entry) ==
    [entry EXCEPT !.available = TRUE, !.retryAfter = 0]

\* rate-limit branch of updateApiKeyStatus
MarkRateLimited(entry, t) ==
    [entry EXCEPT !.available = FALSE, !.retryAfter = t + RETRY_DELAY_MS]

\* final else branch of updateApiKeyStatus
MarkOtherFailure(entry) ==
    [entry EXCEPT !.available = TRUE]

\* Variant of FindEntry: the first entry when none matches.
FindEntryOrFirst(ks, keyInUse) ==
    IF \E i \in 1..Len(ks) : ks[i].key = keyInUse
    THEN CHOOSE i \in 1..Len(ks) : ks[i].key = keyInUse
    ELSE 1

\* keyStatus.find(entry => entry.key === keyInUse): 1-based index, 0 if none
FindEntry(ks, keyInUse) ==
    IF \E i \in 1..Len(ks) : ks[i].key = keyInUse
    THEN CHOOSE i \in 1..Len(ks) :
            /\ ks[i].key = keyInUse
            /\ \A j \in 1..(i - 1) : ks[j].key # keyInUse
    ELSE 0

\* Variant of updateApiKeyStatus: a success resets every entry of the pool.
updateApiKeyStatusResetAll(ks, keyInUse, success, errorMessage, t) ==
    LET i == FindEntry(ks, keyInUse) IN
    IF i = 0 THEN ks
    ELSE IF success THEN [j \in 1..Len(ks) |-> MarkSuccess(ks[j])]
    ELSE IF IsRateLimitError(errorMessage)
         THEN [ks EXCEPT ![i] = MarkRateLimited(ks[i], t)]
         ELSE [ks EXCEPT ![i] = MarkOtherFailure(ks[i])]

\* updateApiKeyStatus(keyInUse, success, errorMessage): the new keyStatus
updateApiKeyStatus(ks, keyInUse, success, errorMessage, t) ==
    LET i == FindEntry(ks, keyInUse) IN
    IF i = 0 THEN ks
    ELSE IF success THEN [ks EXCEPT ![i] = MarkSuccess(ks[i])]
    ELSE IF IsRateLimitError(errorMessage)
         THEN [ks EXCEPT ![i] = MarkRateLimited(ks[i], t)]
         ELSE [ks EXCEPT ![i] = MarkOtherFailure(ks[i])]

\* ---------------------------------------------------------------- handler

\* res.status(200).json(...) on success
SuccessResponse ==
    [status |-> 200, error |-> ""]

\* No response has been sent.
NoResponse ==
    [status |-> 0, error |-> ""]

\* The chain of tests in the catch block that picks the error response.
ErrorResponse(errorMessage) ==
    IF Includes(errorMessage, ApiKeyText) \/ Includes(errorMessage, Code403Text)
    THEN [status |-> 401, error |-> "Invalid or unauthorized API Key."]
    ELSE IF \/ Includes(errorMessage, Code400Text)
            \/ Includes(errorMessage, ResponseSchemaText)
    THEN [status |-> 400, error |-> "Bad request. Try reducing content or questions."]
    ELSE IF \/ Includes(errorMessage, Code503Text)
            \/ Includes(errorMessage, TemporarilyUnavailableText)
    THEN [status |-> 503, error |-> "AI service unavailable. Please try again later."]
    ELSE IF Includes(errorMessage, NoGeminiApiKeyText)
    THEN [status |-> 500,
          error |-> "All keys are currently unavailable. Please try again later."]
    ELSE [status |-> 500, error |-> "Failed to generate quiz."]

\* The response to the Error getAvailableApiKey throws, and the response to
\* each error message of the provider, worked out once.
NoKeyResponse ==
    ErrorResponse(NoKeyMessage)

ProviderErrorResponse ==
    [m \in ErrorMessages |-> ErrorResponse(m)]

\* What the most recent pool call was, with its arguments, result and the
\* fields of the entry it touched as they were before the call; for an
\* Acquire, follows is the secret of the report it comes right after when
\* that report was a failure without rate-limit marker, and examined is the
\* number of entries its scan looked at; response is what the handler sent
\* to the client in the same step (status 0: nothing yet).
NoOp ==
    [op |-> "none", key |-> NULL, succeeded |-> FALSE, kind |-> "none",
     follows |-> NULL, startIndex |-> 0, prevAvailable |-> TRUE, prevRetryAfter |-> 0,
     examined |-> 0, response |-> NoResponse]

\* The kind of a report the handler makes, read off its arguments.
ReportKind(success, errorMessage) ==
    IF success THEN "success"
    ELSE IF errorMessage \in RateLimitMessages THEN "rateLimit"
    ELSE "otherFailure"

\* firstAcquires: what the Acquire calls since start-up returned, up to one
\* per entry, as long as no failure has been reported; Spoiled afterwards.
Spoiled == <<"spoiled">>

RecordAcquire(rec, foundKey, n) ==
    IF rec # Spoiled /\ Len(rec) < n THEN Append(rec, foundKey) ELSE rec

\* acquireLog: like firstAcquires, but one call longer, so that the wrap to
\* the head of the pool is on record.
\* acquireRun: the secrets the successful Acquire calls returned since the
\* latest report of any kind.
\* rlSeq: per entry, the parity of the number of rate-limit reports on it.
\* scenario: how far the run has followed the script "Acquire; report
\* 'quota exceeded' on what it returned; Acquire; Acquire; five minutes pass;
\* Acquire" on a pool of two.  stage counts the calls of the script made so
\* far (-1: the run left the script), got is what its Acquire calls
\* returned, reportedAt the time of its report, final the first entry as
\* the last Acquire of the script left it.
NoEntry ==
    [key |-> NULL, available |-> FALSE, retryAfter |-> 0]

ScenarioStart ==
    [stage |-> 0, got |-> << >>, reportedAt |-> 0, final |-> NoEntry]

ScenarioOff ==
    [stage |-> -1, got |-> << >>, reportedAt |-> 0, final |-> NoEntry]

\* The state right after the module has been loaded with the keys of
\* ALL_API_KEYS.
Loaded ==
    /\ keyStatus = InitialKeyStatus(ALL_API_KEYS)
    /\ currentKeyIndex = 0
    /\ now = TickMs
    /\ pc = [h \in Handlers |-> "idle"]
    /\ usedKey = [h \in Handlers |-> NULL]
    /\ lastOp = NoOp
    /\ reportedSince = [i \in 1..Len(ALL_API_KEYS) |-> FALSE]
    /\ rlReportedAt = [i \in 1..Len(ALL_API_KEYS) |-> 0]
    /\ firstAcquires = << >>
    /\ acquireLog = << >>
    /\ acquireRun = << >>
    /\ rlSeq = [i \in 1..Len(ALL_API_KEYS) |-> 0]
    /\ scenario = IF Len(ALL_API_KEYS) = 2 THEN ScenarioStart ELSE ScenarioOff

Init ==
    /\ ALL_API_KEYS \in {SubSeq(KeyNames, 1, n) : n \in 1..MaxKeys}
    /\ Loaded

\* const { ai, key } = getGeminiAIInstance(); usedKey = key;  and, when it
\* throws, the catch block that answers the request without a report.
AcquireKey(h) ==
    /\ pc[h] = "idle"
    /\ LET r == getAvailableApiKey(keyStatus, currentKeyIndex, now)
           i == FindEntry(keyStatus, r.foundKey) IN
       /\ keyStatus' = r.keyStatus
       /\ currentKeyIndex' = r.currentKeyIndex
       /\ pc' = [pc EXCEPT ![h] = IF r.threw THEN "idle" ELSE "calling"]
       /\ usedKey' = [usedKey EXCEPT ![h] = r.foundKey]
       /\ lastOp' = [op |-> "Acquire", key |-> r.foundKey, succeeded |-> ~r.threw,
                     kind |-> "acquire",
                     follows |-> IF lastOp.kind = "otherFailure" THEN lastOp.key ELSE NULL,
                     startIndex |-> currentKeyIndex,
                     prevAvailable |-> IF i = 0 THEN TRUE ELSE keyStatus[i].available,
                     prevRetryAfter |-> IF i = 0 THEN 0 ELSE keyStatus[i].retryAfter,
                     examined |-> IF r.threw THEN r.attempts ELSE r.attempts + 1,
                     response |-> IF r.threw THEN NoKeyResponse ELSE NoResponse]
    /\ UNCHANGED <<ALL_API_KEYS, now>>

\* Variant of Report: the report made for the secret handed out last, as if
\* usedKey were shared by all requests.
ReportLatestKey(h, success, errorMessage) ==
    /\ pc[h] = "calling"
    /\ LET k == ALL_API_KEYS[((currentKeyIndex + Len(ALL_API_KEYS) - 1)
                                % Len(ALL_API_KEYS)) + 1]
           i == FindEntry(keyStatus, k) IN
       /\ keyStatus' = updateApiKeyStatus(keyStatus, k, success, errorMessage, now)
       /\ lastOp' = [op |-> "Report", key |-> k, succeeded |-> success,
                     kind |-> ReportKind(success, errorMessage),
                     follows |-> NULL, startIndex |-> 0,
                     prevAvailable |-> IF i = 0 THEN TRUE ELSE keyStatus[i].available,
                     prevRetryAfter |-> IF i = 0 THEN 0 ELSE keyStatus[i].retryAfter,
                     examined |-> 0,
                     response |-> IF success THEN SuccessResponse
                                  ELSE ProviderErrorResponse[errorMessage]]
    /\ pc' = [pc EXCEPT ![h] = "idle"]
    /\ usedKey' = [usedKey EXCEPT ![h] = NULL]
    /\ UNCHANGED <<ALL_API_KEYS, currentKeyIndex, now>>

\* The pool call made when a request ends: updateApiKeyStatus(usedKey, ...).
Report(h, success, errorMessage) ==
    /\ pc[h] = "calling"
    /\ LET i == FindEntry(keyStatus, usedKey[h]) IN
       /\ keyStatus' = updateApiKeyStatus(keyStatus, usedKey[h], success, errorMessage, now)
       /\ lastOp' = [op |-> "Report", key |-> usedKey[h], succeeded |-> success,
                     kind |-> ReportKind(success, errorMessage),
                     follows |-> NULL, startIndex |-> 0,
                     prevAvailable |-> IF i = 0 THEN TRUE ELSE keyStatus[i].available,
                     prevRetryAfter |-> IF i = 0 THEN 0 ELSE keyStatus[i].retryAfter,
                     examined |-> 0,
                     response |-> IF success THEN SuccessResponse
                                  ELSE ProviderErrorResponse[errorMessage]]
    /\ pc' = [pc EXCEPT ![h] = "idle"]
    /\ usedKey' = [usedKey EXCEPT ![h] = NULL]
    /\ UNCHANGED <<ALL_API_KEYS, currentKeyIndex, now>>

\* Date.now() moves forward between steps.
ClockAdvance ==
    /\ now < MaxNow
    /\ now' = now + TickMs
    /\ UNCHANGED <<ALL_API_KEYS, keyStatus, currentKeyIndex, pc, usedKey, lastOp>>

\* --- the program, with the report history left out
Acquire(h) ==
    AcquireKey(h) /\ UNCHANGED hist

\* updateApiKeyStatus(usedKey, true) after the provider call and its processing
ReportSuccess(h) ==
    Report(h, TRUE, MsgEmpty) /\ UNCHANGED hist

\* catch (error): if (usedKey) updateApiKeyStatus(usedKey, false, errorMessage)
ReportFailure(h) ==
    \E m \in ErrorMessages : Report(h, FALSE, m) /\ UNCHANGED hist

Tick ==
    ClockAdvance /\ UNCHANGED hist

Next ==
    \/ \E h \in Handlers : Acquire(h)
    \/ \E h \in Handlers : ReportSuccess(h)
    \/ \E h \in Handlers : ReportFailure(h)
    \/ Tick

Spec == Init /\ [][Next]_vars

\* --- the same program, recording for each entry when a rate-limit failure
\* was last reported for it (0: not within the last five minutes) and whether
\* another kind of report has been made for it since
TrackReport(h, success, errorMessage) ==
    LET i == FindEntry(keyStatus, usedKey[h])
        kind == ReportKind(success, errorMessage) IN
    /\ reportedSince' = IF i = 0 THEN reportedSince
                        ELSE [reportedSince EXCEPT
                                ![i] = kind # "rateLimit" /\ rlReportedAt[i] > 0]
    /\ rlReportedAt' = IF i # 0 /\ kind = "rateLimit"
                       THEN [rlReportedAt EXCEPT ![i] = now]
                       ELSE rlReportedAt
    /\ UNCHANGED <<firstAcquires, laterHist>>

CdAcquire(h) ==
    AcquireKey(h) /\ UNCHANGED hist

CdReportSuccess(h) ==
    Report(h, TRUE, MsgEmpty) /\ TrackReport(h, TRUE, MsgEmpty)

CdReportFailure(h) ==
    \E m \in ErrorMessages : Report(h, FALSE, m) /\ TrackReport(h, FALSE, m)

\* The record of a rate-limit report is dropped once its five minutes are over.
CdTick ==
    /\ ClockAdvance
    /\ rlReportedAt' = [i \in 1..Len(keyStatus) |->
                          IF now' >= rlReportedAt[i] + FiveMinutes THEN 0
                          ELSE rlReportedAt[i]]
    /\ reportedSince' = [i \in 1..Len(keyStatus) |->
                           reportedSince[i] /\ rlReportedAt'[i] > 0]
    /\ UNCHANGED <<firstAcquires, laterHist>>

NextCooldown ==
    \/ \E h \in Handlers : CdAcquire(h)
    \/ \E h \in Handlers : CdReportSuccess(h)
    \/ \E h \in Handlers : CdReportFailure(h)
    \/ CdTick

SpecCooldown == Init /\ [][NextCooldown]_vars

\* --- the same program, recording what the first Acquire calls returned
FrAcquire(h) ==
    /\ AcquireKey(h)
    /\ firstAcquires' = RecordAcquire(firstAcquires, usedKey'[h], Len(keyStatus))
    /\ UNCHANGED <<reportedSince, rlReportedAt, laterHist>>

FrReportSuccess(h) ==
    Report(h, TRUE, MsgEmpty) /\ UNCHANGED hist

FrReportFailure(h) ==
    /\ \E m \in ErrorMessages : Report(h, FALSE, m)
    /\ firstAcquires' = Spoiled
    /\ UNCHANGED <<reportedSince, rlReportedAt, laterHist>>

FrTick ==
    ClockAdvance /\ UNCHANGED hist

NextFresh ==
    \/ \E h \in Handlers : FrAcquire(h)
    \/ \E h \in Handlers : FrReportSuccess(h)
    \/ \E h \in Handlers : FrReportFailure(h)
    \/ FrTick

SpecFresh == Init /\ [][NextFresh]_vars

\* ---------------------------------------------------------------------
\* The same handlers, with the record of what the Acquire calls returned
\* since start-up kept one call past the end of the pool.  A pool of three
\* keys is always among the start states.
\* ---------------------------------------------------------------------
InitRoundRobin ==
    /\ ALL_API_KEYS \in {SubSeq(KeyNames, 1, n) : n \in (1..MaxKeys) \cup {3}}
    /\ Loaded

RrAcquire(h) ==
    /\ AcquireKey(h)
    /\ acquireLog' = RecordAcquire(acquireLog, usedKey'[h], Len(ALL_API_KEYS) + 1)
    /\ UNCHANGED <<earlierHist, acquireRun, rlSeq, scenario>>

RrReportSuccess(h) ==
    Report(h, TRUE, MsgEmpty) /\ UNCHANGED hist

RrReportFailure(h) ==
    /\ \E m \in ErrorMessages : Report(h, FALSE, m)
    /\ acquireLog' = Spoiled
    /\ UNCHANGED <<earlierHist, acquireRun, rlSeq, scenario>>

RrTick ==
    ClockAdvance /\ UNCHANGED hist

NextRoundRobin ==
    \/ \E h \in Handlers : RrAcquire(h)
    \/ \E h \in Handlers : RrReportSuccess(h)
    \/ \E h \in Handlers : RrReportFailure(h)
    \/ RrTick

SpecRoundRobin == InitRoundRobin /\ [][NextRoundRobin]_vars

\* ---------------------------------------------------------------------
\* The same handlers, with the record of what the Acquire calls returned
\* since the latest report.
\* ---------------------------------------------------------------------
CcAcquire(h) ==
    /\ AcquireKey(h)
    /\ acquireRun' = IF usedKey'[h] = NULL THEN acquireRun
                     ELSE Append(acquireRun, usedKey'[h])
    /\ UNCHANGED <<earlierHist, acquireLog, rlSeq, scenario>>

CcReportSuccess(h) ==
    /\ Report(h, TRUE, MsgEmpty)
    /\ acquireRun' = << >>
    /\ UNCHANGED <<earlierHist, acquireLog, rlSeq, scenario>>

CcReportFailure(h) ==
    /\ \E m \in ErrorMessages : Report(h, FALSE, m)
    /\ acquireRun' = << >>
    /\ UNCHANGED <<earlierHist, acquireLog, rlSeq, scenario>>

CcTick ==
    ClockAdvance /\ UNCHANGED hist

NextConcurrent ==
    \/ \E h \in Handlers : CcAcquire(h)
    \/ \E h \in Handlers : CcReportSuccess(h)
    \/ \E h \in Handlers : CcReportFailure(h)
    \/ CcTick

SpecConcurrent == Init /\ [][NextConcurrent]_vars

\* ---------------------------------------------------------------------
\* The exported functions called directly, by a caller that may pass
\* updateApiKeyStatus a string that is no key of the pool.
\* ---------------------------------------------------------------------
UnknownSecret == "not-a-key"

Secrets == {ALL_API_KEYS[i] : i \in 1..Len(ALL_API_KEYS)} \cup {UnknownSecret}

\* getGeminiAIInstance()
ApiAcquire ==
    LET r == getAvailableApiKey(keyStatus, currentKeyIndex, now)
        i == FindEntry(keyStatus, r.foundKey)
    IN
    /\ keyStatus' = r.keyStatus
    /\ currentKeyIndex' = r.currentKeyIndex
    /\ lastOp' = [op |-> "Acquire", key |-> r.foundKey, succeeded |-> ~r.threw,
                  kind |-> "acquire", follows |-> NULL,
                  startIndex |-> currentKeyIndex,
                  prevAvailable |-> IF i = 0 THEN TRUE ELSE keyStatus[i].available,
                  prevRetryAfter |-> IF i = 0 THEN 0 ELSE keyStatus[i].retryAfter,
                  examined |-> IF r.threw THEN r.attempts ELSE r.attempts + 1,
                  response |-> NoResponse]
    /\ UNCHANGED <<ALL_API_KEYS, now, pc, usedKey, hist>>

\* updateApiKeyStatus(keyInUse, success, errorMessage)
ApiReport(keyInUse, success, errorMessage) ==
    LET i == FindEntry(keyStatus, keyInUse) IN
    /\ keyStatus' = updateApiKeyStatus(keyStatus, keyInUse, success, errorMessage, now)
    /\ lastOp' = [op |-> "Report", key |-> keyInUse, succeeded |-> success,
                  kind |-> ReportKind(success, errorMessage), follows |-> NULL,
                  startIndex |-> 0,
                  prevAvailable |-> IF i = 0 THEN TRUE ELSE keyStatus[i].available,
                  prevRetryAfter |-> IF i = 0 THEN 0 ELSE keyStatus[i].retryAfter,
                  examined |-> 0, response |-> NoResponse]
    /\ UNCHANGED <<ALL_API_KEYS, currentKeyIndex, now, pc, usedKey, hist>>

ApiReportSuccess ==
    \E k \in Secrets : ApiReport(k, TRUE, MsgEmpty)

ApiReportFailure ==
    \E k \in Secrets : \E m \in ErrorMessages : ApiReport(k, FALSE, m)

ApiTick ==
    ClockAdvance /\ UNCHANGED hist

NextApi ==
    \/ ApiAcquire
    \/ ApiReportSuccess
    \/ ApiReportFailure
    \/ ApiTick

SpecApi == Init /\ [][NextApi]_vars

\* ---------------------------------------------------------------------
\* The same handlers on a server that keeps running: the clock keeps
\* advancing up to the horizon of the model, every request that has a key
\* ends with a report, and new requests keep arriving.  Rate-limit failures
\* stop early enough for their cooldown to end within the horizon.
\* ---------------------------------------------------------------------
LvAcquire(h) ==
    AcquireKey(h) /\ UNCHANGED hist

LvReportSuccess(h) ==
    Report(h, TRUE, MsgEmpty) /\ UNCHANGED hist

LvReportFailure(h) ==
    \E m \in ErrorMessages :
        /\ IsRateLimitError(m) => now + RETRY_DELAY_MS <= MaxNow
        /\ Report(h, FALSE, m)
        /\ rlSeq' = IF IsRateLimitError(m)
                    THEN [rlSeq EXCEPT ![FindEntry(keyStatus, usedKey[h])] = 1 - @]
                    ELSE rlSeq
        /\ UNCHANGED <<earlierHist, acquireLog, acquireRun, scenario>>

LvTick ==
    ClockAdvance /\ UNCHANGED hist

NextLive ==
    \/ \E h \in Handlers : LvAcquire(h)
    \/ \E h \in Handlers : LvReportSuccess(h)
    \/ \E h \in Handlers : LvReportFailure(h)
    \/ LvTick

SpecLive ==
    /\ Init
    /\ [][NextLive]_vars
    /\ WF_vars(LvTick)
    /\ \A h \in Handlers : WF_vars(LvAcquire(h))
    /\ \A h \in Handlers : WF_vars(LvReportSuccess(h) \/ LvReportFailure(h))

\* ---------------------------------------------------------------------
\* The same handlers, with the run compared against the script of the
\* two-key scenario.
\* ---------------------------------------------------------------------
ScriptAcquire(sc, foundKey, first, t) ==
    IF sc.stage \in {0, 2, 3}
    THEN [sc EXCEPT !.stage = @ + 1, !.got = Append(@, foundKey)]
    ELSE IF sc.stage = 1 THEN ScenarioOff
    ELSE IF sc.stage = 4 /\ t >= sc.reportedAt + FiveMinutes
    THEN [sc EXCEPT !.stage = 5, !.got = Append(@, foundKey), !.final = first]
    ELSE sc

ScriptReport(sc, keyInUse, success, errorMessage, t) ==
    IF sc.stage = 1 /\ ~success /\ errorMessage = MsgQuota /\ keyInUse = sc.got[1]
    THEN [sc EXCEPT !.stage = 2, !.reportedAt = t]
    ELSE IF sc.stage \in 1..3 THEN ScenarioOff
    ELSE sc

ScriptTick(sc, t) ==
    IF sc.stage \in 2..3 /\ t >= sc.reportedAt + FiveMinutes
    THEN ScenarioOff
    ELSE sc

ScAcquire(h) ==
    /\ AcquireKey(h)
    /\ scenario' = ScriptAcquire(scenario, usedKey'[h], keyStatus'[1], now)
    /\ UNCHANGED <<earlierHist, acquireLog, acquireRun, rlSeq>>

ScReportSuccess(h) ==
    /\ Report(h, TRUE, MsgEmpty)
    /\ scenario' = ScriptReport(scenario, usedKey[h], TRUE, MsgEmpty, now)
    /\ UNCHANGED <<earlierHist, acquireLog, acquireRun, rlSeq>>

ScReportFailure(h) ==
    \E m \in ErrorMessages :
        /\ Report(h, FALSE, m)
        /\ scenario' = ScriptReport(scenario, usedKey[h], FALSE, m, now)
        /\ UNCHANGED <<earlierHist, acquireLog, acquireRun, rlSeq>>

ScTick ==
    /\ ClockAdvance
    /\ scenario' = ScriptTick(scenario, now')
    /\ UNCHANGED <<earlierHist, acquireLog, acquireRun, rlSeq>>

NextScenario ==
    \/ \E h \in Handlers : ScAcquire(h)
    \/ \E h \in Handlers : ScReportSuccess(h)
    \/ \E h \in Handlers : ScReportFailure(h)
    \/ ScTick

SpecScenario == Init /\ [][NextScenario]_vars

\* ----------------------------------------------------------------- claims
N == Len(ALL_API_KEYS)

\* The 1-based position of a secret in the pool as constructed.
KeyIndex(k) == CHOOSE i \in 1..N : ALL_API_KEYS[i] = k

\* An entry that may not be handed out at time t.
IsCooling(entry, t) == ~entry.available /\ entry.retryAfter > t

\* The 1-based position d places after the 0-based cursor c, in cyclic order.
After(c, d) == ((c + d) % N) + 1

\* How many entries a scan starting at cursor c passes over before it meets
\* one it may hand out (N when there is none).
SkippedFrom(ks, c, t) ==
    IF \A i \in 1..N : IsCooling(ks[i], t) THEN N
    ELSE CHOOSE d \in 0..(N - 1) :
            /\ ~IsCooling(ks[After(c, d)], t)
            /\ \A e \in 0..(d - 1) : IsCooling(ks[After(c, e)], t)

TypeOK ==
    /\ currentKeyIndex \in 0..(N - 1)
    /\ Len(keyStatus) = N
    /\ \A i \in 1..N : keyStatus[i].available \in BOOLEAN
    /\ now \in 0..MaxNow
    /\ pc \in [Handlers -> {"idle", "calling"}]

\* C1 (as stated): once a rate-limit failure has been reported for a secret
\* at time t, no Acquire returns that secret before t + 5 minutes, whatever
\* Acquire and ReportOutcome calls come in between.
C1_NoAcquireBeforeCooldownEnds ==
    \A i \in 1..N :
        (lastOp.op = "Acquire" /\ lastOp.key = ALL_API_KEYS[i] /\ rlReportedAt[i] > 0)
            => now >= rlReportedAt[i] + FiveMinutes

\* C1 (amended): once a rate-limit failure has been reported for a secret at
\* time t, no Acquire returns that secret before t + 5 minutes, as long as
\* that report is still the latest report made for the secret.
C1_NoAcquireWhileLatestReportIsRateLimit ==
    \A i \in 1..N :
        (/\ lastOp.op = "Acquire"
         /\ lastOp.key = ALL_API_KEYS[i]
         /\ rlReportedAt[i] > 0
         /\ ~reportedSince[i])
            => now >= rlReportedAt[i] + FiveMinutes

\* C1 witness: less than 5 minutes after a rate-limit failure report for the
\* entry at the cursor, an Acquire has passed over it and returned another.
C1_Witness ==
    \E i \in 1..N :
        /\ lastOp.op = "Acquire"
        /\ lastOp.succeeded
        /\ lastOp.startIndex = i - 1
        /\ lastOp.key # ALL_API_KEYS[i]
        /\ rlReportedAt[i] > 0
        /\ ~reportedSince[i]
        /\ now < rlReportedAt[i] + FiveMinutes

\* C2: Acquire fails with PoolExhausted exactly when every entry is
\* unavailable with a deadline still ahead; otherwise it returns a secret of
\* the pool, whatever the cursor position.
C2_ExhaustedIffAllCooling ==
    [][\A h \in Handlers :
          Acquire(h) =>
            /\ ~lastOp'.succeeded <=> (\A i \in 1..N : IsCooling(keyStatus[i], now))
            /\ lastOp'.succeeded =>
                 (\E i \in 1..N : lastOp'.key = ALL_API_KEYS[i] /\ usedKey'[h] = lastOp'.key)
            /\ ~lastOp'.succeeded => usedKey'[h] = NULL]_vars

\* C2 witness: an Acquire that started at a cursor other than 0 has failed.
C2_Witness ==
    /\ lastOp.op = "Acquire"
    /\ ~lastOp.succeeded
    /\ lastOp.startIndex # 0

\* C3 (as stated): a successful Acquire leaves the cursor at the value it had
\* before the call plus one, mod N, however many entries the scan skipped.
C3_CursorAdvancesByOne ==
    (lastOp.op = "Acquire" /\ lastOp.succeeded)
        => currentKeyIndex = (lastOp.startIndex + 1) % N

\* C3 (amended): a successful Acquire leaves the cursor at the value it had
\* before the call, plus the number of cooling entries the scan skipped, plus
\* one, mod N.
C3_CursorAdvancesPastSkipped ==
    [][\A h \in Handlers :
          (Acquire(h) /\ lastOp'.succeeded) =>
            currentKeyIndex' =
              (currentKeyIndex + SkippedFrom(keyStatus, currentKeyIndex, now) + 1) % N]_vars

\* C3 witness: a successful Acquire that skipped an entry.
C3_Witness ==
    /\ lastOp.op = "Acquire"
    /\ lastOp.succeeded
    /\ currentKeyIndex # (lastOp.startIndex + 1) % N

\* C4: in every reachable state the cursor is in [0, N) and the pool holds
\* exactly the entries it was constructed with, in the same order.
C4_CursorInRangeAndPoolFixed ==
    /\ currentKeyIndex \in 0..(N - 1)
    /\ Len(keyStatus) = N
    /\ \A i \in 1..N : keyStatus[i].key = ALL_API_KEYS[i]

\* C4 witness: a failed Acquire while a request is in flight, the cursor
\* having left 0.
C4_Witness ==
    /\ lastOp.op = "Acquire"
    /\ ~lastOp.succeeded
    /\ \E h \in Handlers : pc[h] = "calling"
    /\ currentKeyIndex # 0

\* A scan that starts at cursor c comes to entry i: every entry before it,
\* in cyclic order from c, is cooling.
ScanReaches(ks, c, i, t) ==
    \E d \in 0..(N - 1) :
        /\ After(c, d) = i
        /\ \A e \in 0..(d - 1) : IsCooling(ks[After(c, e)], t)

C6_LazyExpiry ==
    [][\A h \in Handlers :
          Acquire(h) =>
            \A i \in 1..N :
              /\ (/\ ScanReaches(keyStatus, currentKeyIndex, i, now)
                  /\ ~keyStatus[i].available
                  /\ keyStatus[i].retryAfter <= now)
                    => /\ usedKey'[h] = ALL_API_KEYS[i]
                       /\ keyStatus'[i].available
                       /\ keyStatus'[i].retryAfter = 0
              /\ IsCooling(keyStatus[i], now) => usedKey'[h] # ALL_API_KEYS[i]
              /\ (/\ lastOp.op = "Acquire"
                  /\ ~lastOp.prevAvailable
                  /\ lastOp.key = ALL_API_KEYS[i]
                  /\ usedKey'[h] = ALL_API_KEYS[i])
                    => keyStatus'[i] = keyStatus[i]]_vars

\* C6 witness: an Acquire has just returned an entry that was unavailable
\* with retryAfter exactly equal to now.
C6_Witness ==
    /\ lastOp.op = "Acquire"
    /\ lastOp.succeeded
    /\ ~lastOp.prevAvailable
    /\ lastOp.prevRetryAfter = now
    /\ keyStatus[KeyIndex(lastOp.key)].available

\* C7: a failure report for a known secret leaves its entry unavailable with
\* retryAfter = report time + 5 minutes exactly when the error text contains
\* 'rate limit', 'quota exceeded' or '429' (case-sensitively), whatever the
\* entry's state before.
C7_CooldownIffRateLimitMarker ==
    [][\A h \in Handlers :
          (pc[h] = "calling" /\ pc'[h] = "idle") =>
            \A m \in ErrorMessages :
              (Report(h, FALSE, m) /\ usedKey[h] # NULL) =>
                LET i == KeyIndex(usedKey[h]) IN
                (m \in RateLimitMessages) <=>
                    (/\ ~keyStatus'[i].available
                     /\ keyStatus'[i].retryAfter = now + FiveMinutes)]_vars

\* C7 witness: a rate-limit failure report on an entry that was already
\* cooling has moved its deadline to the later report time + 5 minutes.
C7_Witness ==
    /\ lastOp.op = "Report"
    /\ ~lastOp.succeeded
    /\ ~lastOp.prevAvailable
    /\ lastOp.prevRetryAfter > 0
    /\ ~keyStatus[KeyIndex(lastOp.key)].available
    /\ keyStatus[KeyIndex(lastOp.key)].retryAfter = now + FiveMinutes
    /\ keyStatus[KeyIndex(lastOp.key)].retryAfter > lastOp.prevRetryAfter

\* C8: a success report for a known secret leaves its entry available with
\* retryAfter = 0, whatever the entry's state before.
C8_SuccessResets ==
    (lastOp.op = "Report" /\ lastOp.succeeded) =>
        /\ keyStatus[KeyIndex(lastOp.key)].available
        /\ keyStatus[KeyIndex(lastOp.key)].retryAfter = 0

\* C8 witness: a success report has just cleared a cooldown whose deadline is
\* still ahead.
C8_Witness ==
    /\ lastOp.op = "Report"
    /\ lastOp.succeeded
    /\ ~lastOp.prevAvailable
    /\ lastOp.prevRetryAfter > now

\* C9: right after a failure report without rate-limit marker for a secret,
\* an Acquire whose scan comes to that entry returns it.
C9_EligibleAtOnce ==
    [][\A h \in Handlers, i \in 1..N :
          (/\ Acquire(h)
           /\ lastOp.op = "Report"
           /\ lastOp.kind = "otherFailure"
           /\ lastOp.key = ALL_API_KEYS[i]
           /\ ScanReaches(keyStatus, currentKeyIndex, i, now))
            => usedKey'[h] = ALL_API_KEYS[i]]_vars

\* C9 witness: an Acquire that came right after a failure report without
\* marker has returned the reported entry, whose old deadline was still ahead.
C9_Witness ==
    /\ lastOp.op = "Acquire"
    /\ lastOp.follows # NULL
    /\ lastOp.key = lastOp.follows
    /\ lastOp.prevAvailable
    /\ lastOp.prevRetryAfter > now

\* C10: the first N Acquire calls after construction, with no failure
\* reported in between, all succeed and return each entry exactly once.
C10_FirstRoundReturnsEachOnce ==
    firstAcquires # Spoiled =>
        /\ \A j \in 1..Len(firstAcquires) : firstAcquires[j] # NULL
        /\ \A j1, j2 \in 1..Len(firstAcquires) :
              j1 # j2 => firstAcquires[j1] # firstAcquires[j2]
        /\ Len(firstAcquires) = N =>
              {firstAcquires[j] : j \in 1..N} = {ALL_API_KEYS[i] : i \in 1..N}

\* C10 witness: N >= 2 Acquire calls have been made since construction with
\* no failure reported.
C10_Witness ==
    /\ firstAcquires # Spoiled
    /\ N >= 2
    /\ Len(firstAcquires) = N

\* C11: round-robin order.  When every entry is available and the cursor is
\* c, an Acquire returns entry c, leaves every entry available and moves the
\* cursor to c + 1 mod N, so that consecutive calls with no failure report
\* in between return c, c + 1, ... in pool order, wrapping; and counted from
\* construction (c = 0) the calls return entries 0, 1, ..., N - 1, 0, which
\* for N = 3 is 0, 1, 2, 0.
C11_RoundRobinOrder ==
    /\ [][\A h \in Handlers :
            (RrAcquire(h) /\ \A i \in 1..N : keyStatus[i].available)
                => /\ usedKey'[h] = ALL_API_KEYS[currentKeyIndex + 1]
                   /\ currentKeyIndex' = (currentKeyIndex + 1) % N
                   /\ \A i \in 1..N : keyStatus'[i].available]_vars
    /\ [](acquireLog # Spoiled =>
            \A j \in 1..Len(acquireLog) :
                acquireLog[j] = ALL_API_KEYS[((j - 1) % N) + 1])

\* C11 witness: on a pool of three, four Acquire calls have been made since
\* construction with no failure reported.
C11_Witness ==
    /\ N = 3
    /\ acquireLog # Spoiled
    /\ Len(acquireLog) = 4

\* The entries that may be handed out at time t.
Usable(ks, t) == {i \in 1..N : ~IsCooling(ks[i], t)}

\* C12: when at least two entries are usable, an Acquire made by a handler
\* while the secret returned by the previous Acquire is still in use by
\* another handler, with no report made in between, succeeds and returns a
\* different entry.
C12_ConcurrentAcquiresDiffer ==
    [][\A h \in Handlers :
          (/\ CcAcquire(h)
           /\ Len(acquireRun) >= 1
           /\ Cardinality(Usable(keyStatus, now)) >= 2)
              => /\ pc'[h] = "calling"
                 /\ usedKey'[h] # acquireRun[Len(acquireRun)]
                 /\ \E g \in Handlers \ {h} :
                       /\ pc[g] = "calling"
                       /\ usedKey[g] = acquireRun[Len(acquireRun)]]_vars

\* C12 witness: two handlers hold the two different secrets that two
\* Acquire calls with no report in between returned.
C12_Witness ==
    /\ Len(acquireRun) >= 2
    /\ acquireRun[Len(acquireRun) - 1] # acquireRun[Len(acquireRun)]
    /\ \E g, h \in Handlers :
          /\ g # h
          /\ pc[g] = "calling" /\ usedKey[g] = acquireRun[Len(acquireRun) - 1]
          /\ pc[h] = "calling" /\ usedKey[h] = acquireRun[Len(acquireRun)]

\* C13 (as stated): when Acquire fails with PoolExhausted inside the request
\* handler, the handler answers the request with its "temporarily
\* unavailable, try again later" outcome: the 503 "AI service unavailable"
\* response or the "All keys are currently unavailable" response.
C13_ExhaustedAnsweredAsUnavailable ==
    (lastOp.op = "Acquire" /\ ~lastOp.succeeded)
        => \/ /\ lastOp.response.status = 503
              /\ lastOp.response.error = "AI service unavailable. Please try again later."
           \/ /\ lastOp.response.status = 500
              /\ lastOp.response.error =
                    "All keys are currently unavailable. Please try again later."

\* C14: a successful Acquire returns the first usable entry in cyclic pool
\* order from the cursor position held when the call began: the returned
\* entry was usable, and every entry from the starting cursor up to it, the
\* returned entry excluded, was cooling with its deadline still ahead.
C14_ReturnsFirstUsableFromCursor ==
    [][\A h \in Handlers :
          (Acquire(h) /\ pc'[h] = "calling")
              => \E d \in 0..(N - 1) :
                    /\ usedKey'[h] = ALL_API_KEYS[After(currentKeyIndex, d)]
                    /\ ~IsCooling(keyStatus[After(currentKeyIndex, d)], now)
                    /\ \A e \in 0..(d - 1) :
                          LET entry == keyStatus[After(currentKeyIndex, e)] IN
                          ~entry.available /\ entry.retryAfter > now]_vars

\* C14 witness: an Acquire has passed over the entry at its starting cursor,
\* which is still cooling, and returned an entry whose cooldown had run out.
C14_Witness ==
    /\ lastOp.op = "Acquire"
    /\ lastOp.succeeded
    /\ lastOp.examined >= 2
    /\ ~lastOp.prevAvailable
    /\ lastOp.prevRetryAfter <= now
    /\ IsCooling(keyStatus[lastOp.startIndex + 1], now)

\* C15: a report made with a secret that matches no entry of the pool
\* changes nothing: the cursor and every entry's available and retryAfter
\* are as before, for a success report and for a failure report with any
\* error detail.
C15_UnknownSecretIsNoOp ==
    [][\A success \in BOOLEAN : \A m \in ErrorMessages \cup {MsgEmpty} :
          (/\ ApiReport(UnknownSecret, success, m)
           /\ \A i \in 1..N : ALL_API_KEYS[i] # UnknownSecret)
              => /\ currentKeyIndex' = currentKeyIndex
                 /\ \A i \in 1..N :
                       /\ keyStatus'[i].available = keyStatus[i].available
                       /\ keyStatus'[i].retryAfter = keyStatus[i].retryAfter]_vars

\* C15 witness: a rate-limit failure has just been reported for a secret of
\* no entry, on a pool with one entry cooling and one available.
C15_Witness ==
    /\ lastOp.op = "Report"
    /\ lastOp.key = UnknownSecret
    /\ lastOp.kind = "rateLimit"
    /\ \E i \in 1..N : IsCooling(keyStatus[i], now)
    /\ \E i \in 1..N : keyStatus[i].available

\* C16: automatic recovery.  On a server where time keeps advancing and
\* requests keep arriving and ending, an entry that is cooling is eventually
\* available again and returned by an Acquire, unless a further rate-limit
\* failure is reported for it first.
C16_CoolingEntryRecovers ==
    \A i \in 1..MaxKeys : \A b \in {0, 1} :
        [](( /\ i <= N
             /\ ~keyStatus[i].available
             /\ rlSeq[i] = b)
              => <>( \/ /\ i <= N
                        /\ lastOp.op = "Acquire"
                        /\ lastOp.succeeded
                        /\ lastOp.key = ALL_API_KEYS[i]
                        /\ keyStatus[i].available
                     \/ /\ i <= N
                        /\ rlSeq[i] # b ))

\* C16 witness: an entry that was cooling after a rate-limit report has
\* been returned by an Acquire and is available, with no further rate-limit
\* failure reported for it, while another entry is still unavailable.
C16_Witness ==
    /\ lastOp.op = "Acquire"
    /\ lastOp.succeeded
    /\ ~lastOp.prevAvailable
    /\ rlSeq[KeyIndex(lastOp.key)] = 1
    /\ keyStatus[KeyIndex(lastOp.key)].available
    /\ \E j \in 1..N : ~keyStatus[j].available

\* C17: the scenario on a fresh pool of the two keys A and B.  The first
\* Acquire returns A; after the report of a failure "quota exceeded" on A the
\* next Acquire returns B and the one after it returns B again; and the
\* first Acquire made once five minutes have passed since the report
\* returns A, which is then available with retryAfter = 0.
C17_TwoKeyScenario ==
    /\ scenario.stage >= 1 => scenario.got[1] = KeyNames[1]
    /\ scenario.stage >= 3 => scenario.got[2] = KeyNames[2]
    /\ scenario.stage >= 4 => scenario.got[3] = KeyNames[2]
    /\ scenario.stage = 5 =>
          /\ scenario.got[4] = KeyNames[1]
          /\ scenario.final.key = KeyNames[1]
          /\ scenario.final.available
          /\ scenario.final.retryAfter = 0

\* C17 witness: a run has gone through the whole scenario.
C17_Witness ==
    /\ N = 2
    /\ scenario.stage = 5
    /\ Len(scenario.got) = 4

\* C18: every Acquire ends in the step it is made in, at the same clock
\* reading, with a secret of the pool or with PoolExhausted, after looking
\* at no more than N entries: at all N of them when it fails.
C18_AcquireExaminesAtMostN ==
    [][\A h \in Handlers :
          Acquire(h)
              => /\ now' = now
                 /\ lastOp'.op = "Acquire"
                 /\ lastOp'.examined \in 1..N
                 /\ \/ /\ lastOp'.succeeded
                       /\ \E i \in 1..N : lastOp'.key = ALL_API_KEYS[i]
                    \/ /\ ~lastOp'.succeeded
                       /\ lastOp'.key = NULL
                       /\ lastOp'.examined = N]_vars

\* C18 witness: an Acquire that began at a cursor other than 0 on a pool of
\* several entries, all cooling, has failed after looking at each once.
C18_Witness ==
    /\ lastOp.op = "Acquire"
    /\ ~lastOp.succeeded
    /\ N >= 2
    /\ lastOp.startIndex # 0
    /\ lastOp.examined = N
    /\ \A i \in 1..N : IsCooling(keyStatus[i], now)

C20_CursorFollowsReturnedEntry ==
    (lastOp.op = "Acquire" /\ lastOp.succeeded)
        => currentKeyIndex = ((KeyIndex(lastOp.key) - 1) + 1) % N

\* C20 witness: an Acquire has passed over a cooling entry and returned the
\* last entry of a pool of several, and the cursor is back at 0.
C20_Witness ==
    /\ lastOp.op = "Acquire"
    /\ lastOp.succeeded
    /\ N >= 2
    /\ lastOp.key = ALL_API_KEYS[N]
    /\ lastOp.examined >= 2
    /\ currentKeyIndex = 0

\* C21: an Acquire that fails with PoolExhausted leaves the pool as it was:
\* the cursor has the value it had before the call, and every entry has the
\* available and retryAfter it had before the call.
C21_FailedAcquireChangesNothing ==
    [][\A h \in Handlers :
          (Acquire(h) /\ ~lastOp'.succeeded)
              => /\ currentKeyIndex' = currentKeyIndex
                 /\ \A i \in 1..N :
                       /\ keyStatus'[i].available = keyStatus[i].available
                       /\ keyStatus'[i].retryAfter = keyStatus[i].retryAfter]_vars

\* C21 witness: an Acquire on a pool of several entries has failed after a
\* whole revolution from the last position, and the cursor is at that
\* position.
C21_Witness ==
    /\ lastOp.op = "Acquire"
    /\ ~lastOp.succeeded
    /\ N >= 2
    /\ lastOp.startIndex = N - 1
    /\ currentKeyIndex = N - 1
    /\ \A i \in 1..N : ~keyStatus[i].available /\ keyStatus[i].retryAfter > now

\* C22: the protocol of the request handler.  A run whose Acquire returned a
\* secret keeps that secret until it ends, and it ends with a report for
\* exactly that secret: a success report together with the 200 response, a
\* failure report together with an error response.  A run whose Acquire
\* failed ends at once, holding no secret and making no report.  A run that
\* has ended holds no secret, so none is left unreported.
C22_AcquireReportProtocol ==
    /\ [][\A h \in Handlers :
            /\ (pc[h] = "idle" /\ pc'[h] = "calling")
                  => /\ lastOp'.op = "Acquire"
                     /\ lastOp'.succeeded
                     /\ usedKey'[h] = lastOp'.key
            /\ (pc[h] = "calling" /\ pc'[h] = "calling")
                  => usedKey'[h] = usedKey[h]
            /\ (pc[h] = "calling" /\ pc'[h] = "idle")
                  => /\ lastOp'.op = "Report"
                     /\ lastOp'.key = usedKey[h]
                     /\ lastOp'.succeeded <=> lastOp'.response.status = 200
                     /\ ~lastOp'.succeeded => lastOp'.response.status >= 400
            /\ (Acquire(h) /\ ~lastOp'.succeeded)
                  => /\ lastOp'.op = "Acquire"
                     /\ pc'[h] = "idle"
                     /\ usedKey'[h] = NULL
                     /\ keyStatus' = keyStatus]_vars
    /\ [](\A h \in Handlers :
            /\ pc[h] = "idle" => usedKey[h] = NULL
            /\ pc[h] = "calling" => \E i \in 1..N : usedKey[h] = ALL_API_KEYS[i])

\* C22 witness: a run has just ended with a failure report for its own
\* secret while another run still holds a different secret, acquired later.
C22_Witness ==
    /\ lastOp.op = "Report"
    /\ ~lastOp.succeeded
    /\ \E h \in Handlers : pc[h] = "idle" /\ usedKey[h] = NULL
    /\ \E g \in Handlers :
          /\ pc[g] = "calling"
          /\ usedKey[g] # lastOp.key
          /\ currentKeyIndex = KeyIndex(usedKey[g]) % N

\* C23: a report leaves the cursor as it was and changes no entry but the
\* one of the reported secret; a successful Acquire changes no entry but the
\* one it returns, so the cooling entries it passed over keep their
\* available = FALSE and their retryAfter.
C23_OnlyTheNamedEntryChanges ==
    [][\A h \in Handlers :
          /\ (pc[h] = "calling" /\ pc'[h] = "idle")
                => /\ currentKeyIndex' = currentKeyIndex
                   /\ \A i \in 1..N :
                         ALL_API_KEYS[i] # usedKey[h] => keyStatus'[i] = keyStatus[i]
          /\ (pc[h] = "idle" /\ pc'[h] = "calling")
                => \A i \in 1..N :
                      ALL_API_KEYS[i] # usedKey'[h] => keyStatus'[i] = keyStatus[i]]_vars

\* C23 witness: a success has just been reported for one entry while another
\* entry is cooling, its deadline still ahead.
C23_Witness ==
    /\ lastOp.op = "Report"
    /\ lastOp.succeeded
    /\ N >= 2
    /\ \E j \in 1..N :
          /\ ALL_API_KEYS[j] # lastOp.key
          /\ ~keyStatus[j].available
          /\ keyStatus[j].retryAfter > now

====
